---- MODULE Spec2Model ----
(***************************************************************************)
(* virtme/mkinitramfs.py: the initramfs builder.                           *)
(*                                                                         *)
(* A path (host path, archive name, library name) is a sequence of tokens: *)
(* the separator "/" and name components.  A file body is a sequence of    *)
(* text tokens.  The archive writer (cpiowriter.CpioWriter) is the sink:   *)
(* `log` records, in order, every operation the builder performs on it.    *)
(***************************************************************************)
EXTENDS Integers, Sequences, FiniteSets, TLC

VARIABLES
    config,        \* the Config object handed to mkinitramfs
    elf,           \* what pyelftools reads from config.busybox
    hostfs,        \* the host file system the build reads
    pc,            \* position of mkinitramfs
    log,           \* operations performed on the CpioWriter, in order
    needed_paths,  \* the list find_needed_paths returned
    paths,         \* install_modules' local list `paths`
    idx,           \* position of the running for loop
    error,         \* the exception that left mkinitramfs, if any
    sh,            \* the shell running the generated init script in the guest
    trace,         \* commands the init script has run, in order
    mounts,        \* the guest's mount table
    tree           \* top-level entries of the guest's /newroot and /tmproot

\* the guest side: untouched by the builder
guest == <<sh, trace, mounts, tree>>

vars == <<config, elf, hostfs, pc, log, needed_paths, paths, idx, error,
          sh, trace, mounts, tree>>

(***************************************************************************)
(* Bounds of the model.                                                    *)
(***************************************************************************)
\* Total size of one build's input, counted from the default Config() on an
\* empty host: declared libraries + library files on the host + module files
\* + payload entries + files that cannot be opened + 1 for the non-default
\* access mode.
MaxSize == 4

(***************************************************************************)
(* Permission modes and device numbers written by the builder.             *)
(***************************************************************************)
Mode0755 == 493
Mode0644 == 420
Mode0666 == 438
Mode0660 == 432

Sep == "/"

(***************************************************************************)
(* Path and string helpers of the Python library, as the code uses them.   *)
(***************************************************************************)
\* os.path.join(a, b) on POSIX: an absolute b replaces a
join(a, b) ==
    IF b # <<>> /\ Head(b) = Sep THEN b
    ELSE IF a = <<>> \/ a[Len(a)] = Sep THEN a \o b
    ELSE a \o <<Sep>> \o b

\* str.lstrip('/'): drop every leading separator
RECURSIVE lstrip(_)
lstrip(p) ==
    IF p # <<>> /\ Head(p) = Sep THEN lstrip(Tail(p)) ELSE p

\* os.path.basename(p): what follows the last separator
RECURSIVE basename(_)
basename(p) ==
    IF \E i \in DOMAIN p : p[i] = Sep THEN basename(Tail(p)) ELSE p

\* tokens holding a character outside shlex's safe set [A-Za-z0-9@%+=:,./-]
UnsafeTokens == {"s b.ko", "'"}

\* shlex.quote(s)
quote(s) ==
    IF s = <<>> THEN <<"''">>
    ELSE IF \A i \in DOMAIN s : s[i] \notin UnsafeTokens THEN s
    ELSE <<"'">> \o [i \in DOMAIN s |-> IF s[i] = "'" THEN "'\"'\"'" ELSE s[i]]
         \o <<"'">>

(***************************************************************************)
(* The sink's operations (cpiowriter.CpioWriter), as records of the log.   *)
(***************************************************************************)
Mkdir(name, mode) ==
    [op |-> "mkdir", name |-> name, mode |-> mode,
     target |-> <<>>, dev |-> <<>>, body |-> <<>>]

Symlink(src, dst) ==
    [op |-> "symlink", name |-> dst, mode |-> 0,
     target |-> src, dev |-> <<>>, body |-> <<>>]

Mkchardev(name, devno, mode) ==
    [op |-> "mkchardev", name |-> name, mode |-> mode,
     target |-> <<>>, dev |-> devno, body |-> <<>>]

WriteFileOp(name, body, mode) ==
    [op |-> "write_file", name |-> name, mode |-> mode,
     target |-> <<>>, dev |-> <<>>, body |-> body]

TrailerOp ==
    [op |-> "write_trailer", name |-> <<>>, mode |-> 0,
     target |-> <<>>, dev |-> <<>>, body |-> <<>>]

\* the bytes read from an open host file
FileBody(src) == <<"contents of ">> \o src

\* open(src, 'rb') succeeds
CanOpen(src) == src \notin hostfs.unreadable

(***************************************************************************)
(* Dependency resolution.                                                  *)
(***************************************************************************)
ld_paths == << <<Sep, "lib">>, <<Sep, "lib64">>,
               <<Sep, "usr", Sep, "lib">>, <<Sep, "usr", Sep, "lib64">> >>

\* os.path.isfile
isfile(p) == p \in hostfs.isfile

\* Python's None, and a 2-tuple, as the elements of find_needed_paths' list
None == [isNone |-> TRUE, host |-> <<>>, archive |-> <<>>]
Pair(h, a) == [isNone |-> FALSE, host |-> h, archive |-> a]

\* the for loop of find_library_path from directory i on; falling off the
\* end of the function returns None
RECURSIVE find_library_path_from(_, _)
find_library_path_from(i, needed) ==
    IF i > Len(ld_paths) THEN None
    ELSE LET ld_path == join(ld_paths[i], needed)
         IN  IF isfile(ld_path) THEN Pair(ld_path, lstrip(ld_path))
             ELSE find_library_path_from(i + 1, needed)

\* variant: the loop keeps going after a match, so the last directory wins
find_library_path_last_match(needed) ==
    LET hits == {i \in DOMAIN ld_paths : isfile(join(ld_paths[i], needed))}
        last == CHOOSE i \in hits : \A j \in hits : j <= i
    IN  IF hits = {} THEN None
        ELSE Pair(join(ld_paths[last], needed),
                  lstrip(join(ld_paths[last], needed)))

find_library_path(needed) == find_library_path_from(1, needed)

\* find_needed_paths, once the executable is open
find_needed_paths(e) ==
    IF ~e.dynamic THEN <<>>
    ELSE [i \in DOMAIN e.neededs |-> find_library_path(e.neededs[i])]

(***************************************************************************)
(* The fixed layout.                                                       *)
(***************************************************************************)
base_dirs == << <<"lib">>, <<"bin">>, <<"var">>, <<"etc">>, <<"newroot">>,
                <<"dev">>, <<"proc">>, <<"tmproot">>, <<"run_virtme">>,
                <<"run_virtme", Sep, "data">>,
                <<"run_virtme", Sep, "guesttools">> >>

make_base_layout ==
    [i \in DOMAIN base_dirs |-> Mkdir(base_dirs[i], Mode0755)]
    \o << Symlink(<<"bin">>, <<"sbin">>), Symlink(<<"lib">>, <<"lib64">>) >>

\* variant: dev/kmsg gets the device number of dev/null
make_dev_nodes_kmsg_as_null ==
    << Mkchardev(<<"dev", Sep, "null">>, <<1, 3>>, Mode0666),
       Mkchardev(<<"dev", Sep, "kmsg">>, <<1, 3>>, Mode0666),
       Mkchardev(<<"dev", Sep, "console">>, <<5, 1>>, Mode0660) >>

make_dev_nodes ==
    << Mkchardev(<<"dev", Sep, "null">>, <<1, 3>>, Mode0666),
       Mkchardev(<<"dev", Sep, "kmsg">>, <<1, 11>>, Mode0666),
       Mkchardev(<<"dev", Sep, "console">>, <<5, 1>>, Mode0660) >>

busybox_tools == <<"sh", "mount", "umount", "switch_root", "sleep", "mkdir",
                   "mknod", "insmod", "cp", "cat">>

\* variant: bin/real_progs is created before the tool symlinks
install_tools_real_progs_first ==
    << Mkdir(<<"bin", Sep, "real_progs">>, Mode0755) >>
    \o [i \in DOMAIN busybox_tools |->
          Symlink(<<"busybox">>, <<"bin", Sep, busybox_tools[i]>>)]

\* the tail of install_busybox: the tool symlinks, then bin/real_progs
install_tools ==
    [i \in DOMAIN busybox_tools |->
        Symlink(<<"busybox">>, <<"bin", Sep, busybox_tools[i]>>)]
    \o << Mkdir(<<"bin", Sep, "real_progs">>, Mode0755) >>

install_modprobe ==
    WriteFileOp(<<"bin", Sep, "modprobe">>,
                <<"#!/bin/sh", "\n",
                  "echo \"virtme: initramfs does not have module $3\" >/dev/console",
                  "\n", "exit 1">>,
                Mode0755)

(***************************************************************************)
(* Generated scripts.                                                      *)
(***************************************************************************)
LOGFUNC == "log() {...}\n"

\* 'modules/' + os.path.basename(mod)
modpath(mod) == <<"modules", Sep>> \o basename(mod)

\* variant: the archive path is not passed through shlex.quote
load_line_unquoted(p) ==
    <<"log 'loading ">> \o basename(p) \o <<"...'; insmod ">> \o p

\* one element of the generator joined into the loader script
load_line(p) ==
    <<"log 'loading ">> \o basename(p) \o <<"...'; insmod ">> \o quote(p)

\* '\n'.join(load_line(p) for p in ps)
RECURSIVE join_lines(_)
join_lines(ps) ==
    IF ps = <<>> THEN <<>>
    ELSE IF Len(ps) = 1 THEN load_line(ps[1])
    ELSE load_line(ps[1]) \o <<"\n">> \o join_lines(Tail(ps))

load_all_script(ps) == <<LOGFUNC>> \o join_lines(ps)

load_all_sh(ps) ==
    WriteFileOp(<<"modules", Sep, "load_all.sh">>, load_all_script(ps), Mode0644)

\* the template _INIT, cut at its two substitution points
INIT_TEMPLATE ==
    <<"#!/bin/sh\n\n", "{logfunc}", "\n\nsource /modules/load_all.sh\n",
      "\nlog 'mounting hostfs...'\n\nif ! /bin/mount -n -t 9p -o ",
      "{access}",
      ",version=9p2000.L,trans=virtio,access=any /dev/root /newroot/; then\n",
      "...exec /bin/switch_root /newroot \"$init\" \"$@\"\n">>

\* variant: the access option is left at Config's default
generate_init_default_access(c) ==
    [i \in DOMAIN INIT_TEMPLATE |->
        IF INIT_TEMPLATE[i] = "{logfunc}" THEN LOGFUNC
        ELSE IF INIT_TEMPLATE[i] = "{access}" THEN "ro"
        ELSE INIT_TEMPLATE[i]]

\* _INIT.format(logfunc=_LOGFUNC, access=config.access)
generate_init(c) ==
    [i \in DOMAIN INIT_TEMPLATE |->
        IF INIT_TEMPLATE[i] = "{logfunc}" THEN LOGFUNC
        ELSE IF INIT_TEMPLATE[i] = "{access}" THEN c.access
        ELSE INIT_TEMPLATE[i]]

init_entry(c) == WriteFileOp(<<"init">>, generate_init(c), Mode0755)

\* variant: the payload is written with the modules' mode 0o644
payload_entry_not_executable(item) ==
    WriteFileOp(<<"run_virtme", Sep, "data", Sep>> \o item.name,
                <<item.contents>>, Mode0644)

\* b'run_virtme/data/' + name, for one item of config.virtme_data
payload_entry(item) ==
    WriteFileOp(<<"run_virtme", Sep, "data", Sep>> \o item.name,
                <<item.contents>>, Mode0755)

(***************************************************************************)
(* The inputs of one build.                                                *)
(***************************************************************************)
SeqsUpTo(S, n) == UNION {[1..k -> S] : k \in 0..n}

SubsetsUpTo(S, n) == {x \in SUBSET S : Cardinality(x) <= n}

Range(s) == {s[i] : i \in DOMAIN s}

LibNames == { <<"libc.so.6">>, <<"libm.so.6">> }

LibFiles == {join(ld_paths[i], n) : i \in DOMAIN ld_paths, n \in LibNames}

BusyboxPath == <<Sep, "usr", Sep, "bin", Sep, "busybox">>

ModPaths == { <<Sep, "m", Sep, "a.ko">>, <<Sep, "n", Sep, "a.ko">>,
              <<Sep, "m", Sep, "it", "'", "s b.ko">>, <<Sep, "m", Sep, "load_all.sh">> }

PayloadItems ==
    [name : { <<"tool.sh">>, <<"..", Sep, "guesttools">> },
     contents : {"#!/bin/sh\necho hi\n", "data"}]

\* a dict keeps its keys unique and iterates in insertion order
Payloads(n) ==
    {s \in SeqsUpTo(PayloadItems, n) :
        \A i, j \in DOMAIN s : i # j => s[i].name # s[j].name}

\* config.modfiles: None, or a list of host paths
NoModfiles == [isNone |-> TRUE, list |-> <<>>]
Modfiles(l) == [isNone |-> FALSE, list |-> l]

\* no exception has left mkinitramfs
NoError == [type |-> "none", at |-> "none"]

\* the shell before the first line of the init script: no variable is set
ShStart ==
    [pc |-> "source", need_fallback_tmpfs |-> "", init |-> <<>>,
     list |-> <<>>, cmdline |-> <<>>, status |-> 0]

NoTree == [newroot |-> {}, tmproot |-> {}]

Init ==
    \E needs \in SeqsUpTo(LibNames, MaxSize) :
    \E libs \in SubsetsUpTo(LibFiles, MaxSize - Len(needs)) :
    \E mods \in SeqsUpTo(ModPaths, MaxSize - Len(needs) - Cardinality(libs)) :
    \E data \in Payloads(MaxSize - Len(needs) - Cardinality(libs) - Len(mods)) :
    \E bad \in SubsetsUpTo({BusyboxPath} \cup Range(mods) \cup libs,
                           MaxSize - Len(needs) - Cardinality(libs)
                               - Len(mods) - Len(data)) :
    \E dyn \in BOOLEAN, none \in BOOLEAN :
    \E acc \in IF Len(needs) + Cardinality(libs) + Len(mods) + Len(data)
                     + Cardinality(bad) < MaxSize
                THEN {"ro", "rw"} ELSE {"ro"} :
        /\ ~dyn => needs = <<>>
        /\ none => mods = <<>>
        /\ config = [busybox |-> BusyboxPath,
                     modfiles |-> IF none THEN NoModfiles ELSE Modfiles(mods),
                     virtme_data |-> data,
                     access |-> acc]
        /\ elf = [dynamic |-> dyn, neededs |-> needs]
        /\ hostfs = [isfile |-> libs, unreadable |-> bad]
        /\ pc = "make_base_layout"
        /\ log = <<>>
        /\ needed_paths = <<>>
        /\ paths = <<>>
        /\ idx = 1
        /\ error = NoError
        /\ sh = ShStart
        /\ trace = <<>>
        /\ mounts = <<>>
        /\ tree = NoTree

(***************************************************************************)
(* mkinitramfs, one action per call or loop iteration.                     *)
(***************************************************************************)
\* variant: the trailer is written on the way out (a `finally` clause)
Raise_after_trailer(type) ==
    /\ pc' = "raised"
    /\ error' = [type |-> type, at |-> pc]
    /\ log' = Append(log, TrailerOp)
    /\ UNCHANGED <<guest, config, elf, hostfs, needed_paths, paths, idx>>

\* an exception leaves mkinitramfs: nothing below catches it
Raise(type) ==
    /\ pc' = "raised"
    /\ error' = [type |-> type, at |-> pc]
    /\ UNCHANGED <<guest, config, elf, hostfs, log, needed_paths, paths, idx>>

\* copy(cw, src, dst, mode), followed by the move to `next`, `nextidx`
Copy(src, dst, mode, next, nextidx) ==
    IF CanOpen(src)
    THEN /\ log' = Append(log, WriteFileOp(dst, FileBody(src), mode))
         /\ pc' = next
         /\ idx' = nextidx
         /\ UNCHANGED <<guest, config, elf, hostfs, needed_paths, paths, error>>
    ELSE Raise("OSError")

MakeBaseLayout ==
    /\ pc = "make_base_layout"
    /\ log' = log \o make_base_layout
    /\ pc' = "make_dev_nodes"
    /\ UNCHANGED <<guest, config, elf, hostfs, needed_paths, paths, idx, error>>

MakeDevNodes ==
    /\ pc = "make_dev_nodes"
    /\ log' = log \o make_dev_nodes
    /\ pc' = "install_busybox"
    /\ UNCHANGED <<guest, config, elf, hostfs, needed_paths, paths, idx, error>>

\* install_busybox: copy(cw, config.busybox, b'bin/busybox', 0o755)
InstallBusybox ==
    /\ pc = "install_busybox"
    /\ Copy(config.busybox, <<"bin", Sep, "busybox">>, Mode0755,
            "find_needed_paths", idx)

\* install_busybox: the call find_needed_paths(config.busybox)
FindNeededPaths ==
    /\ pc = "find_needed_paths"
    /\ IF CanOpen(config.busybox)
       THEN /\ needed_paths' = find_needed_paths(elf)
            /\ idx' = 1
            /\ pc' = "copy_needed"
            /\ UNCHANGED <<guest, config, elf, hostfs, log, paths, error>>
       ELSE Raise("OSError")

\* install_busybox: one iteration of the loop over the needed paths;
\* unpacking an element that is None raises TypeError
CopyNeeded ==
    /\ pc = "copy_needed"
    /\ idx <= Len(needed_paths)
    /\ IF needed_paths[idx].isNone
       THEN Raise("TypeError")
       ELSE Copy(needed_paths[idx].host, needed_paths[idx].archive,
                 Mode0755, "copy_needed", idx + 1)

\* install_busybox: after the loop, the tool symlinks and bin/real_progs
InstallTools ==
    /\ pc = "copy_needed"
    /\ idx > Len(needed_paths)
    /\ log' = log \o install_tools
    /\ pc' = "install_modprobe"
    /\ UNCHANGED <<guest, config, elf, hostfs, needed_paths, paths, idx, error>>

InstallModprobe ==
    /\ pc = "install_modprobe"
    /\ log' = Append(log, install_modprobe)
    /\ pc' = "modfiles"
    /\ UNCHANGED <<guest, config, elf, hostfs, needed_paths, paths, idx, error>>

\* variant: the test `if config.modfiles:`, false for the empty list too
install_modules_called_if_truthy(c) ==
    ~c.modfiles.isNone /\ c.modfiles.list # <<>>

\* the test `config.modfiles is not None`
install_modules_called(c) == ~c.modfiles.isNone

\* mkinitramfs: the module step is skipped
SkipModules ==
    /\ pc = "modfiles"
    /\ ~install_modules_called(config)
    /\ pc' = "virtme_data"
    /\ idx' = 1
    /\ UNCHANGED <<guest, config, elf, hostfs, log, needed_paths, paths, error>>

\* install_modules: cw.mkdir(b'modules', 0o755); paths = []
InstallModules ==
    /\ pc = "modfiles"
    /\ install_modules_called(config)
    /\ log' = Append(log, Mkdir(<<"modules">>, Mode0755))
    /\ paths' = <<>>
    /\ idx' = 1
    /\ pc' = "copy_module"
    /\ UNCHANGED <<guest, config, elf, hostfs, needed_paths, error>>

\* install_modules: one iteration of the loop over modfiles
CopyModule ==
    /\ pc = "copy_module"
    /\ idx <= Len(config.modfiles.list)
    /\ LET mod == config.modfiles.list[idx]
       IN  IF CanOpen(mod)
           THEN /\ paths' = Append(paths, modpath(mod))
                /\ log' = Append(log, WriteFileOp(modpath(mod), FileBody(mod),
                                                  Mode0644))
                /\ idx' = idx + 1
                /\ UNCHANGED <<guest, config, elf, hostfs, pc, needed_paths, error>>
           ELSE Raise("OSError")

\* install_modules: after the loop, modules/load_all.sh
WriteLoadAll ==
    /\ pc = "copy_module"
    /\ idx > Len(config.modfiles.list)
    /\ log' = Append(log, load_all_sh(paths))
    /\ pc' = "virtme_data"
    /\ idx' = 1
    /\ UNCHANGED <<guest, config, elf, hostfs, needed_paths, paths, error>>

\* mkinitramfs: one iteration of the loop over config.virtme_data.items()
WritePayload ==
    /\ pc = "virtme_data"
    /\ idx <= Len(config.virtme_data)
    /\ log' = Append(log, payload_entry(config.virtme_data[idx]))
    /\ idx' = idx + 1
    /\ UNCHANGED <<guest, config, elf, hostfs, pc, needed_paths, paths, error>>

\* variant: the last two statements swapped, the trailer before `init`
WriteInit_after_trailer ==
    /\ pc = "virtme_data"
    /\ idx > Len(config.virtme_data)
    /\ log' = log \o <<TrailerOp, init_entry(config)>>
    /\ pc' = "done"
    /\ UNCHANGED <<guest, config, elf, hostfs, needed_paths, paths, idx, error>>

\* mkinitramfs: cw.write_file(b'init', ...)
WriteInit ==
    /\ pc = "virtme_data"
    /\ idx > Len(config.virtme_data)
    /\ log' = Append(log, init_entry(config))
    /\ pc' = "write_trailer"
    /\ UNCHANGED <<guest, config, elf, hostfs, needed_paths, paths, idx, error>>

\* mkinitramfs: cw.write_trailer()
WriteTrailer ==
    /\ pc = "write_trailer"
    /\ log' = Append(log, TrailerOp)
    /\ pc' = "done"
    /\ UNCHANGED <<guest, config, elf, hostfs, needed_paths, paths, idx, error>>

Next ==
    \/ MakeBaseLayout
    \/ MakeDevNodes
    \/ InstallBusybox
    \/ FindNeededPaths
    \/ CopyNeeded
    \/ InstallTools
    \/ InstallModprobe
    \/ SkipModules
    \/ InstallModules
    \/ CopyModule
    \/ WriteLoadAll
    \/ WritePayload
    \/ WriteInit
    \/ WriteTrailer

Spec == Init /\ [][Next]_vars

(***************************************************************************)
(* The generated init script (_INIT), run by the guest kernel as process   *)
(* 1: one action per block of the script.  What the guest decides (whether *)
(* a mount works, what the host root holds, the kernel command line, the   *)
(* script's arguments) is drawn when the script first meets it.            *)
(***************************************************************************)
\* Length of the kernel command line, in arguments.
MaxCmdline == 2

\* a command the script ran, its words, and whether it succeeded
Cmd(name, args, ok) == [cmd |-> name, args |-> args, ok |-> ok]

Word(w) == <<w>>
InNewroot(name) == <<Sep, "newroot", Sep, name>>
NEWROOT == <<Sep, "newroot">>
TMPROOT == <<Sep, "tmproot">>
PROC == <<Sep, "proc">>

\* an entry of the mount table
Mount(type, src, on) == [type |-> type, src |-> src, on |-> on, ro |-> FALSE]

Dir(name) == [name |-> name, dir |-> TRUE]
File(name) == [name |-> name, dir |-> FALSE]

\* what the root of the host's file system may hold
RootEntries ==
    {Dir("proc"), Dir("run"), Dir("usr"), File("vmlinuz"), Dir(".snapshots")}

\* names the pattern * leaves out
Hidden == {".snapshots"}

\* the names above in the order pathname expansion sorts them
GlobOrder == <<"proc", "run", "usr", "vmlinuz">>

\* the words of `*` in a directory: its visible names, sorted; the pattern
\* itself when nothing matches
Glob(entries) ==
    LET Matches(n) == n \notin Hidden /\ \E e \in entries : e.name = n
    IN  IF SelectSeq(GlobOrder, Matches) = <<>> THEN <<"*">>
        ELSE SelectSeq(GlobOrder, Matches)

\* [[ -d name ]] among `entries`
IsDir(entries, name) == Dir(name) \in entries

\* arguments of the kernel command line, cut at their = signs
CmdlineArgs ==
    { <<"quiet">>, <<"rdinit", "=", "/init">>, <<"init">>, <<"init", "=">>,
      <<"init", "=", "/sbin/init">>, <<"init", "=", "/bin/sh">> }

\* the arguments the kernel hands to the script ("$@")
ScriptArgs == { <<>>, << <<"single">> >> }

\* ${arg%%=*}: the argument without its longest suffix matching =*
RECURSIVE before_equals(_)
before_equals(arg) ==
    IF arg = <<>> \/ Head(arg) = "=" THEN <<>>
    ELSE <<Head(arg)>> \o before_equals(Tail(arg))

\* ${arg#init=}: the argument without a leading init=
strip_init_prefix(arg) ==
    IF Len(arg) >= 2 /\ arg[1] = "init" /\ arg[2] = "="
    THEN SubSeq(arg, 3, Len(arg))
    ELSE arg

\* the test [[ "${arg%%=*}" = "init" ]]
is_init_arg(arg) == before_equals(arg) = <<"init">>

\* the -o option of the 9p mount, as generate_init rendered it
mount_options(c) ==
    <<generate_init(c)[5], ",version=9p2000.L,trans=virtio,access=any">>

Log(msg) == Cmd("log", <<Word(msg)>>, TRUE)

\* variant: the status is set but the script goes on with the next block
Exit_goes_on(status) ==
    [sh EXCEPT !.pc = "probe", !.status = status]

\* exit: the script ends with `status`
Exit(status) ==
    [sh EXCEPT !.pc = "exited", !.status = status]

BootInit ==
    /\ \E acc \in {"ro", "rw"} :
          config = [busybox |-> BusyboxPath, modfiles |-> Modfiles(<<>>),
                    virtme_data |-> <<>>, access |-> acc]
    /\ elf = [dynamic |-> FALSE, neededs |-> <<>>]
    /\ hostfs = [isfile |-> {}, unreadable |-> {}]
    /\ pc = "make_base_layout"
    /\ log = <<>>
    /\ needed_paths = <<>>
    /\ paths = <<>>
    /\ idx = 1
    /\ error = NoError
    \* the script never assigns need_fallback_tmpfs before it tests it: the
    \* value is the one process 1 inherits from the kernel, which hands over
    \* the name=value arguments of the command line it does not know
    /\ \E inherited \in {"", "1"} :
          sh = [ShStart EXCEPT !.need_fallback_tmpfs = inherited]
    /\ trace = <<>>
    /\ mounts = <<>>
    /\ tree = NoTree

builder == <<config, elf, hostfs, pc, log, needed_paths, paths, idx, error>>

\* source /modules/load_all.sh; a shell that cannot open the file either
\* gives up there or goes on
Source ==
    /\ sh.pc = "source"
    /\ \E present \in BOOLEAN, goes_on \in BOOLEAN :
          /\ present => goes_on
          /\ trace' = Append(trace,
                 Cmd("source", << <<Sep, "modules", Sep, "load_all.sh">> >>,
                     present))
          /\ sh' = IF goes_on THEN [sh EXCEPT !.pc = "mount_hostfs"]
                   ELSE Exit(2)
    /\ UNCHANGED <<builder, mounts, tree>>

\* the 9p mount of the host's root on /newroot/, fatal when it fails
MountHostfs ==
    /\ sh.pc = "mount_hostfs"
    /\ \E ok \in BOOLEAN, root \in SUBSET RootEntries :
          LET mount9p == Cmd("/bin/mount",
                             <<Word("-n"), Word("-t"), Word("9p"), Word("-o"),
                               mount_options(config),
                               <<Sep, "dev", Sep, "root">>, NEWROOT>>, ok)
          IN  IF ok
              THEN /\ trace' = trace \o <<Log("mounting hostfs..."), mount9p>>
                   /\ mounts' = Append(mounts,
                          Mount("9p", <<Sep, "dev", Sep, "root">>, NEWROOT))
                   /\ tree' = [tree EXCEPT !.newroot = root]
                   /\ sh' = [sh EXCEPT !.pc = "probe"]
              ELSE /\ root = {}
                   /\ trace' = trace \o
                        <<Log("mounting hostfs..."), mount9p,
                          Cmd("echo", <<Word("Failed to mount real root.  We are stuck.")>>, TRUE),
                          Cmd("sleep", <<Word("5")>>, TRUE),
                          Cmd("exit", <<Word("1")>>, TRUE)>>
                   /\ sh' = Exit(1)
                   /\ UNCHANGED <<mounts, tree>>
    /\ UNCHANGED builder

\* the words of the probe: mount -t proc -o nosuid,noexec,nodev proc /newroot/proc
ProbeCmd(ok) ==
    Cmd("mount", <<Word("-t"), Word("proc"), Word("-o"),
                   Word("nosuid,noexec,nodev"), Word("proc"),
                   InNewroot("proc")>>, ok)

\* can /newroot/ be used as root?  The mount needs its mount point and a
\* virtfs that lets mounts stack on it
ProbeProc ==
    /\ sh.pc = "probe"
    /\ \E stacks \in BOOLEAN :
          IF stacks /\ IsDir(tree.newroot, "proc")
          THEN /\ trace' = Append(trace, ProbeCmd(TRUE))
               /\ mounts' = Append(mounts,
                      Mount("proc", Word("proc"), InNewroot("proc")))
               /\ sh' = [sh EXCEPT !.pc = "probe_umount"]
          ELSE /\ trace' = trace \o
                    <<ProbeCmd(FALSE),
                      Log("your host's virtfs is broken -- using a fallback tmpfs")>>
               /\ sh' = [sh EXCEPT !.pc = "check_run",
                                   !.need_fallback_tmpfs = "1"]
               /\ UNCHANGED mounts
    /\ UNCHANGED <<builder, tree>>

\* umount /newroot/proc
ProbeUmount ==
    /\ sh.pc = "probe_umount"
    /\ trace' = Append(trace, Cmd("umount", <<InNewroot("proc")>>, TRUE))
    /\ mounts' = SelectSeq(mounts, LAMBDA m : m.on # InNewroot("proc"))
    /\ sh' = [sh EXCEPT !.pc = "check_run"]
    /\ UNCHANGED <<builder, tree>>

\* if ! [[ -d /newroot/run ]]
CheckRun ==
    /\ sh.pc = "check_run"
    /\ IF IsDir(tree.newroot, "run")
       THEN /\ trace' = Append(trace, Cmd("[[ -d", <<InNewroot("run")>>, TRUE))
            /\ sh' = [sh EXCEPT !.pc = "need_fallback"]
       ELSE /\ trace' = trace \o
                 <<Cmd("[[ -d", <<InNewroot("run")>>, FALSE),
                   Log("your guest's root does not have /run -- using a fallback tmpfs")>>
            /\ sh' = [sh EXCEPT !.pc = "need_fallback",
                                !.need_fallback_tmpfs = "1"]
    /\ UNCHANGED <<builder, mounts, tree>>

\* the test [[ "$need_fallback_tmpfs" != "" ]]
fallback_needed(s) == s.need_fallback_tmpfs # ""

\* variant: run is not among the directories made in the tmpfs root
recreated_without_run == <<"proc", "sys", "dev", "tmp">>

\* mkdir /newroot/proc /newroot/sys /newroot/dev /newroot/run /newroot/tmp
recreated == <<"proc", "sys", "dev", "run", "tmp">>

\* the head of the fallback block, up to the for loop
FallbackBegin ==
    /\ sh.pc = "need_fallback"
    /\ fallback_needed(sh)
    /\ trace' = trace \o
         <<Cmd("mount", <<Word("--move"), NEWROOT, TMPROOT>>, TRUE),
           Cmd("mount", <<Word("-t"), Word("tmpfs"), Word("root_workaround"),
                          NEWROOT>>, TRUE),
           Cmd("cd", <<Word("tmproot")>>, TRUE),
           Cmd("mkdir", [k \in DOMAIN recreated |-> InNewroot(recreated[k])],
               TRUE)>>
    /\ mounts' = Append([i \in DOMAIN mounts |->
                            IF mounts[i].on = NEWROOT
                            THEN [mounts[i] EXCEPT !.on = TMPROOT]
                            ELSE mounts[i]],
                        Mount("tmpfs", Word("root_workaround"), NEWROOT))
    /\ tree' = [newroot |-> {Dir(n) : n \in Range(recreated)},
                tmproot |-> tree.newroot]
    /\ sh' = [sh EXCEPT !.pc = "bind_loop", !.list = Glob(tree.newroot)]
    /\ UNCHANGED builder

\* no fallback: straight to the mount of /newroot/run
SkipFallback ==
    /\ sh.pc = "need_fallback"
    /\ ~fallback_needed(sh)
    /\ sh' = [sh EXCEPT !.pc = "mount_run"]
    /\ UNCHANGED <<builder, trace, mounts, tree>>

\* the test [[ -d "$i" && \! -d "/newroot/$i" ]], run in /tmproot
bind_wanted(i) == IsDir(tree.tmproot, i) /\ ~IsDir(tree.newroot, i)

\* one turn of `for i in *`
BindStep ==
    /\ sh.pc = "bind_loop"
    /\ sh.list # <<>>
    /\ LET i == Head(sh.list)
       IN  IF bind_wanted(i)
           THEN /\ trace' = trace \o
                     <<Cmd("mkdir", <<InNewroot(i)>>, TRUE),
                       Cmd("mount", <<Word("--bind"), Word(i), InNewroot(i)>>,
                           TRUE)>>
                /\ mounts' = Append(mounts,
                       Mount("bind", TMPROOT \o <<Sep, i>>, InNewroot(i)))
                /\ tree' = [tree EXCEPT !.newroot = @ \cup {Dir(i)}]
           ELSE UNCHANGED <<trace, mounts, tree>>
    /\ sh' = [sh EXCEPT !.list = Tail(@)]
    /\ UNCHANGED builder

\* the tail of the fallback block, after the loop
FallbackEnd ==
    /\ sh.pc = "bind_loop"
    /\ sh.list = <<>>
    /\ trace' = trace \o
         <<Cmd("mknod", <<<<Sep, "newroot", Sep, "dev", Sep, "null">>,
                          Word("c"), Word("1"), Word("3")>>, TRUE),
           Cmd("mount", <<Word("-o"), Word("remount,ro"), Word("-t"),
                          Word("tmpfs"), Word("root_workaround"), NEWROOT>>,
               TRUE),
           Cmd("umount", <<Word("-l"), TMPROOT>>, TRUE)>>
    /\ mounts' = SelectSeq([i \in DOMAIN mounts |->
                               IF mounts[i].on = NEWROOT
                               THEN [mounts[i] EXCEPT !.ro = TRUE]
                               ELSE mounts[i]],
                           LAMBDA m : m.on # TMPROOT)
    /\ sh' = [sh EXCEPT !.pc = "mount_run"]
    /\ UNCHANGED <<builder, tree>>

\* mount -t tmpfs run /newroot/run; cp -a /run_virtme /newroot/run/virtme
MountRun ==
    /\ sh.pc = "mount_run"
    /\ trace' = trace \o
         <<Cmd("mount", <<Word("-t"), Word("tmpfs"), Word("run"),
                          InNewroot("run")>>, IsDir(tree.newroot, "run")),
           Cmd("cp", <<Word("-a"), <<Sep, "run_virtme">>,
                       <<Sep, "newroot", Sep, "run", Sep, "virtme">> >>,
               IsDir(tree.newroot, "run"))>>
    /\ mounts' = IF IsDir(tree.newroot, "run")
                 THEN Append(mounts, Mount("tmpfs", Word("run"),
                                           InNewroot("run")))
                 ELSE mounts
    /\ sh' = [sh EXCEPT !.pc = "find_init"]
    /\ UNCHANGED <<builder, tree>>

\* mount -t proc none /proc, and the words of `cat /proc/cmdline`
ReadCmdline ==
    /\ sh.pc = "find_init"
    /\ \E cmdline \in SeqsUpTo(CmdlineArgs, MaxCmdline) :
          sh' = [sh EXCEPT !.pc = "arg_loop", !.list = cmdline,
                           !.cmdline = cmdline]
    /\ trace' = trace \o
         <<Cmd("mount", <<Word("-t"), Word("proc"), Word("none"), PROC>>,
               TRUE),
           Cmd("cat", <<<<Sep, "proc", Sep, "cmdline">> >>, TRUE)>>
    /\ mounts' = Append(mounts, Mount("proc", Word("none"), PROC))
    /\ UNCHANGED <<builder, tree>>

\* variant: no break, so the loop runs on and the last init argument wins
ArgStep_without_break ==
    /\ sh.pc = "arg_loop"
    /\ sh.list # <<>>
    /\ sh' = IF is_init_arg(Head(sh.list))
             THEN [sh EXCEPT !.init = strip_init_prefix(Head(sh.list)),
                             !.list = Tail(@)]
             ELSE [sh EXCEPT !.list = Tail(@)]
    /\ UNCHANGED <<builder, trace, mounts, tree>>

\* one turn of `for arg in ...`: the first init argument ends the loop
ArgStep ==
    /\ sh.pc = "arg_loop"
    /\ sh.list # <<>>
    /\ sh' = IF is_init_arg(Head(sh.list))
             THEN [sh EXCEPT !.init = strip_init_prefix(Head(sh.list)),
                             !.list = <<>>]
             ELSE [sh EXCEPT !.list = Tail(@)]
    /\ UNCHANGED <<builder, trace, mounts, tree>>

\* umount /proc
UmountProc ==
    /\ sh.pc = "arg_loop"
    /\ sh.list = <<>>
    /\ trace' = Append(trace, Cmd("umount", <<PROC>>, TRUE))
    /\ mounts' = SelectSeq(mounts, LAMBDA m : m.on # PROC)
    /\ sh' = [sh EXCEPT !.pc = "check_init"]
    /\ UNCHANGED <<builder, tree>>

\* if [[ -z "$init" ]]
NoInit ==
    /\ sh.pc = "check_init"
    /\ sh.init = <<>>
    /\ trace' = trace \o <<Log("no init= option"),
                           Cmd("exit", <<Word("1")>>, TRUE)>>
    /\ sh' = Exit(1)
    /\ UNCHANGED <<builder, mounts, tree>>

\* exec /bin/switch_root /newroot "$init" "$@"
SwitchRoot ==
    /\ sh.pc = "check_init"
    /\ sh.init # <<>>
    /\ \E argv \in ScriptArgs :
          trace' = trace \o
              <<Log("done; switching to real root"),
                Cmd("exec /bin/switch_root", <<NEWROOT, sh.init>> \o argv,
                    TRUE)>>
    /\ sh' = [sh EXCEPT !.pc = "switched"]
    /\ UNCHANGED <<builder, mounts, tree>>

BootNext ==
    \/ Source
    \/ MountHostfs
    \/ ProbeProc
    \/ ProbeUmount
    \/ CheckRun
    \/ FallbackBegin
    \/ SkipFallback
    \/ BindStep
    \/ FallbackEnd
    \/ MountRun
    \/ ReadCmdline
    \/ ArgStep
    \/ UmountProc
    \/ NoInit
    \/ SwitchRoot

BootSpec == BootInit /\ [][BootNext]_vars

(***************************************************************************)
(* Vocabulary of the properties.                                           *)
(***************************************************************************)
\* indices of the log entries written under archive path `name`
EntriesNamed(name) == {i \in DOMAIN log : log[i].name = name}

IsPrefix(p, q) == Len(p) <= Len(q) /\ SubSeq(q, 1, Len(p)) = p

\* the file of library `needed` in the k-th search directory
LibIn(k, needed) == ld_paths[k] \o <<Sep>> \o needed

\* the search directories holding a regular file named `needed`
DirsHolding(needed) ==
    {k \in DOMAIN ld_paths : LibIn(k, needed) \in hostfs.isfile}

\* the declared library names, and those found in no search directory
Declared == IF elf.dynamic THEN elf.neededs ELSE <<>>
Unresolved == {i \in DOMAIN Declared : DirsHolding(Declared[i]) = {}}

\* find_needed_paths has returned into install_busybox
Resolved == pc = "copy_needed"

TrailerWritten == \E i \in DOMAIN log : log[i].op = "write_trailer"

(***************************************************************************)
(* C1: find_needed_paths omits a declared name found in no search          *)
(* directory: every element of its result is a (host_path, archive_path)   *)
(* pair, one per resolvable name, so the result is never longer than the   *)
(* list of declared names.                                                 *)
(***************************************************************************)
C1_UnresolvedOmitted ==
    Resolved =>
        /\ \A i \in DOMAIN needed_paths : ~needed_paths[i].isNone
        /\ Len(needed_paths) = Len(Declared) - Cardinality(Unresolved)
        /\ Len(needed_paths) <= Len(Declared)

(***************************************************************************)
(* C2: with a readable executable that declares a library found in no      *)
(* search directory, the unresolved name raises no error while the         *)
(* dependency entries are copied.                                          *)
(***************************************************************************)
C2_UnresolvedNotAnError ==
    (CanOpen(config.busybox) /\ Unresolved # {}) =>
        ~(error.type = "TypeError" /\ error.at = "copy_needed")

(***************************************************************************)
(* C3 as written: with an empty module list the module step is skipped,    *)
(* so no `modules` directory and no modules/load_all.sh are written.       *)
(***************************************************************************)
ModulesEntries ==
    {i \in DOMAIN log : log[i].name = <<"modules">>
                        \/ IsPrefix(<<"modules", Sep>>, log[i].name)}

PastModules == pc \in {"virtme_data", "write_trailer", "done"}

C3_EmptyListSkips ==
    (PastModules /\ config.modfiles.list = <<>>) => ModulesEntries = {}

(***************************************************************************)
(* C3 amended: the module step is skipped exactly when the module list is  *)
(* absent (None); with a list, the empty one included, the `modules`       *)
(* directory and modules/load_all.sh are each written once.                *)
(***************************************************************************)
C3_SkippedOnlyWhenNone ==
    PastModules =>
        IF config.modfiles.isNone
        THEN ModulesEntries = {}
        ELSE /\ \E i \in DOMAIN log : log[i] = Mkdir(<<"modules">>, Mode0755)
             /\ \E i \in DOMAIN log :
                    /\ log[i].op = "write_file"
                    /\ log[i].name = <<"modules", Sep, "load_all.sh">>
                    /\ log[i].mode = Mode0644

C3_Witness ==
    /\ pc = "done"
    /\ ~config.modfiles.isNone
    /\ config.modfiles.list = <<>>
    /\ ModulesEntries # {}

(***************************************************************************)
(* C4: when every declared name is a regular file in some search           *)
(* directory, the result has one entry per declared name, in declaration   *)
(* order; the host path of each is the file in the first directory of the  *)
(* priority order holding the name, and its archive path is the host path  *)
(* without its leading separator.                                          *)
(***************************************************************************)
FirstDir(needed) ==
    CHOOSE k \in DirsHolding(needed) : \A j \in DirsHolding(needed) : k <= j

C4_AllResolvedInOrder ==
    (Resolved /\ Unresolved = {}) =>
        /\ Len(needed_paths) = Len(Declared)
        /\ \A i \in DOMAIN Declared :
            /\ ~needed_paths[i].isNone
            /\ needed_paths[i].host = LibIn(FirstDir(Declared[i]), Declared[i])
            /\ <<Sep>> \o needed_paths[i].archive = needed_paths[i].host
            /\ Head(needed_paths[i].archive) # Sep

C4_Witness ==
    /\ Resolved
    /\ Unresolved = {}
    /\ Len(Declared) >= 1
    /\ \E i \in DOMAIN Declared :
          /\ Cardinality(DirsHolding(Declared[i])) >= 2
          /\ 1 \notin DirsHolding(Declared[i])

(***************************************************************************)
(* C5: in a completed build the sink operations are, in this order: the    *)
(* 11 skeleton directories, the symlinks sbin and lib64, the device nodes  *)
(* dev/null, dev/kmsg, dev/console, the file bin/busybox, the dependency   *)
(* files in resolver order, the ten tool symlinks, the directory           *)
(* bin/real_progs, the file bin/modprobe, the module entries (if any), the *)
(* payload files, the file init, and last the trailer.                     *)
(***************************************************************************)
OpNames(l) == [i \in DOMAIN l |-> <<l[i].op, l[i].name>>]

C5_Skeleton ==
    << <<"mkdir", <<"lib">> >>, <<"mkdir", <<"bin">> >>,
       <<"mkdir", <<"var">> >>, <<"mkdir", <<"etc">> >>,
       <<"mkdir", <<"newroot">> >>, <<"mkdir", <<"dev">> >>,
       <<"mkdir", <<"proc">> >>, <<"mkdir", <<"tmproot">> >>,
       <<"mkdir", <<"run_virtme">> >>,
       <<"mkdir", <<"run_virtme", "/", "data">> >>,
       <<"mkdir", <<"run_virtme", "/", "guesttools">> >>,
       <<"symlink", <<"sbin">> >>, <<"symlink", <<"lib64">> >>,
       <<"mkchardev", <<"dev", "/", "null">> >>,
       <<"mkchardev", <<"dev", "/", "kmsg">> >>,
       <<"mkchardev", <<"dev", "/", "console">> >>,
       <<"write_file", <<"bin", "/", "busybox">> >> >>

C5_Tools ==
    << <<"symlink", <<"bin", "/", "sh">> >>,
       <<"symlink", <<"bin", "/", "mount">> >>,
       <<"symlink", <<"bin", "/", "umount">> >>,
       <<"symlink", <<"bin", "/", "switch_root">> >>,
       <<"symlink", <<"bin", "/", "sleep">> >>,
       <<"symlink", <<"bin", "/", "mkdir">> >>,
       <<"symlink", <<"bin", "/", "mknod">> >>,
       <<"symlink", <<"bin", "/", "insmod">> >>,
       <<"symlink", <<"bin", "/", "cp">> >>,
       <<"symlink", <<"bin", "/", "cat">> >>,
       <<"mkdir", <<"bin", "/", "real_progs">> >>,
       <<"write_file", <<"bin", "/", "modprobe">> >> >>

C5_Deps ==
    [i \in DOMAIN Declared |->
        <<"write_file", Tail(LibIn(FirstDir(Declared[i]), Declared[i]))>>]

C5_Modules ==
    IF config.modfiles.isNone THEN <<>>
    ELSE << <<"mkdir", <<"modules">> >> >>
         \o [i \in DOMAIN config.modfiles.list |->
               <<"write_file",
                 <<"modules", "/">> \o basename(config.modfiles.list[i])>>]
         \o << <<"write_file", <<"modules", "/", "load_all.sh">> >> >>

C5_Payload ==
    [i \in DOMAIN config.virtme_data |->
        <<"write_file",
          <<"run_virtme", "/", "data", "/">> \o config.virtme_data[i].name>>]

C5_BuildOrder ==
    pc = "done" =>
        OpNames(log) = C5_Skeleton \o C5_Deps \o C5_Tools \o C5_Modules
                       \o C5_Payload
                       \o << <<"write_file", <<"init">> >>,
                             <<"write_trailer", <<>> >> >>

C5_Witness ==
    /\ pc = "done"
    /\ Len(Declared) >= 1
    /\ Len(config.modfiles.list) >= 1
    /\ Len(config.virtme_data) >= 1

(***************************************************************************)
(* C6: the trailer is written at most once, nothing is written after it,   *)
(* and the `init` entry precedes it.                                       *)
(***************************************************************************)
C6_TrailerOnceLast ==
    \A i \in DOMAIN log :
        log[i].op = "write_trailer" =>
            /\ i = Len(log)
            /\ \A j \in DOMAIN log : log[j].op = "write_trailer" => j = i
            /\ \E j \in 1..(i - 1) :
                  log[j].op = "write_file" /\ log[j].name = <<"init">>

C6_Witness == pc = "done" /\ TrailerWritten

(***************************************************************************)
(* C7: a failing step (an executable, dependency or module file that       *)
(* cannot be opened) aborts the build there: the exception leaves          *)
(* mkinitramfs, the sink holds nothing of the later steps and no trailer;  *)
(* a sink with a trailer comes from a build whose every step succeeded.    *)
(***************************************************************************)
EveryStepSucceeds ==
    /\ CanOpen(config.busybox)
    /\ Unresolved = {}
    /\ \A i \in DOMAIN Declared :
          CanOpen(LibIn(FirstDir(Declared[i]), Declared[i]))
    /\ \A i \in DOMAIN config.modfiles.list : CanOpen(config.modfiles.list[i])

C7_FailureAborts ==
    /\ TrailerWritten => (error = NoError /\ EveryStepSucceeds)
    /\ ~EveryStepSucceeds => pc # "done"
    /\ pc = "raised" =>
        /\ error.type # "none"
        /\ ~TrailerWritten
        /\ EntriesNamed(<<"init">>) = {}
        /\ error.at = "install_busybox" =>
              log = make_base_layout \o make_dev_nodes
        /\ error.at = "copy_needed" =>
              /\ Len(log) = Len(make_base_layout \o make_dev_nodes) + idx
              /\ EntriesNamed(<<"bin", Sep, "sh">>) = {}
        /\ error.at = "copy_module" =>
              /\ idx <= Len(log)
              /\ log[Len(log) - (idx - 1)] = Mkdir(<<"modules">>, Mode0755)
              /\ \A i \in DOMAIN log : log[i].body # load_all_script(paths)

C7_Witness ==
    /\ pc = "raised"
    /\ error.type = "OSError"
    /\ error.at = "copy_module"
    /\ idx = 2

(***************************************************************************)
(* C8: whatever the configuration, once the skeleton is laid out the sink  *)
(* holds exactly one entry under each of the 11 fixed directories (mode    *)
(* 0755), the 2 compatibility symlinks and the 3 device nodes (dev/null    *)
(* char 1:3 mode 0666, dev/kmsg char 1:11 mode 0666, dev/console char 5:1  *)
(* mode 0660), and that entry is the fixed one.                            *)
(***************************************************************************)
C8_Fixed ==
    { Mkdir(d, 493) :
        d \in { <<"lib">>, <<"bin">>, <<"var">>, <<"etc">>, <<"newroot">>,
                <<"dev">>, <<"proc">>, <<"tmproot">>, <<"run_virtme">>,
                <<"run_virtme", "/", "data">>,
                <<"run_virtme", "/", "guesttools">> } }
    \cup { Symlink(<<"bin">>, <<"sbin">>), Symlink(<<"lib">>, <<"lib64">>) }
    \cup { Mkchardev(<<"dev", "/", "null">>, <<1, 3>>, 438),
           Mkchardev(<<"dev", "/", "kmsg">>, <<1, 11>>, 438),
           Mkchardev(<<"dev", "/", "console">>, <<5, 1>>, 432) }

C8_FixedEntriesOnce ==
    pc \notin {"make_base_layout", "make_dev_nodes"} =>
        \A f \in C8_Fixed :
            \E i \in DOMAIN log : log[i] = f /\ EntriesNamed(f.name) = {i}

C8_Witness ==
    /\ pc = "done"
    /\ Len(Declared) >= 1
    /\ Len(config.modfiles.list) >= 1
    /\ \E k \in DOMAIN config.virtme_data :
          config.virtme_data[k].name = <<"..", "/", "guesttools">>

(***************************************************************************)
(* C9: install_modules on [m1..mn] writes modules/<basename(mi)> with mode *)
(* 0644 in input order, then modules/load_all.sh (mode 0644), whose body   *)
(* holds exactly n "loading" log lines and n insmod invocations, the i-th  *)
(* naming basename(mi) and the shell-quoted path modules/<basename(mi)>.   *)
(***************************************************************************)
FirstIndex(b, t) ==
    CHOOSE k \in DOMAIN b : b[k] = t /\ \A j \in 1..(k - 1) : b[j] # t

RECURSIVE SplitLines(_)
SplitLines(b) ==
    IF \A k \in DOMAIN b : b[k] # "\n" THEN <<b>>
    ELSE <<SubSeq(b, 1, FirstIndex(b, "\n") - 1)>>
         \o SplitLines(SubSeq(b, FirstIndex(b, "\n") + 1, Len(b)))

\* the lines of a loader script after its logging helper
ScriptLines(body) ==
    IF Tail(body) = <<>> THEN <<>> ELSE SplitLines(Tail(body))

Count(b, t) == Cardinality({k \in DOMAIN b : b[k] = t})

\* what the shell reads back from a word: a single-quoted word loses its
\* quotes, and '"'"' inside it is one quote character
ShellWord(q) ==
    IF Len(q) >= 2 /\ q[1] = "'" /\ q[Len(q)] = "'"
    THEN [k \in 1..(Len(q) - 2) |->
            IF q[k + 1] = "'\"'\"'" THEN "'" ELSE q[k + 1]]
    ELSE q

\* the word reaches insmod as one argument
OneShellWord(q) ==
    \/ Len(q) >= 2 /\ q[1] = "'" /\ q[Len(q)] = "'"
         /\ \A k \in 2..(Len(q) - 1) : q[k] # "'"
    \/ \A k \in DOMAIN q : q[k] \notin {"s b.ko", "'"}

C9_LoaderLine(line, mod) ==
    /\ Count(line, "log 'loading ") = 1
    /\ Count(line, "...'; insmod ") = 1
    /\ line[1] = "log 'loading "
    /\ LET k == FirstIndex(line, "...'; insmod ")
           word == SubSeq(line, k + 1, Len(line))
       IN  /\ SubSeq(line, 2, k - 1) = basename(mod)
           /\ OneShellWord(word)
           /\ ShellWord(word) = <<"modules", "/">> \o basename(mod)

C9_ModulesInstalled ==
    (PastModules /\ ~config.modfiles.isNone) =>
        LET mods == config.modfiles.list
            n == Len(mods)
            d == CHOOSE i \in DOMAIN log : log[i] = Mkdir(<<"modules">>, 493)
            script == log[d + n + 1]
        IN  /\ \A i \in 1..n :
                  log[d + i] = WriteFileOp(<<"modules", "/">> \o basename(mods[i]),
                                           FileBody(mods[i]), 420)
            /\ script.op = "write_file"
            /\ script.name = <<"modules", "/", "load_all.sh">>
            /\ script.mode = 420
            /\ Head(script.body) = LOGFUNC
            /\ Count(script.body, "log 'loading ") = n
            /\ Count(script.body, "...'; insmod ") = n
            /\ Len(ScriptLines(script.body)) = n
            /\ \A i \in 1..n :
                  C9_LoaderLine(ScriptLines(script.body)[i], mods[i])

C9_Witness ==
    /\ pc = "done"
    /\ Len(config.modfiles.list) = 2
    /\ config.modfiles.list[1] = <<"/", "m", "/", "it", "'", "s b.ko">>
    /\ config.modfiles.list[2] = <<"/", "n", "/", "a.ko">>

(***************************************************************************)
(* C10: an empty payload mapping puts no entry under run_virtme/data; a    *)
(* non-empty one puts exactly one file entry per key there, at             *)
(* run_virtme/data/<name>, with the key's content and mode 0755, each      *)
(* after the module step and before the init entry.                        *)
(***************************************************************************)
DataEntries ==
    {i \in DOMAIN log : IsPrefix(<<"run_virtme", "/", "data", "/">>, log[i].name)}

C10_PayloadInstalled ==
    /\ config.virtme_data = <<>> => DataEntries = {}
    /\ pc = "done" =>
        /\ Cardinality(DataEntries) = Len(config.virtme_data)
        /\ \A k \in DOMAIN config.virtme_data :
              \E i \in DataEntries :
                  /\ log[i] = WriteFileOp(<<"run_virtme", "/", "data", "/">>
                                              \o config.virtme_data[k].name,
                                          <<config.virtme_data[k].contents>>,
                                          493)
                  /\ EntriesNamed(log[i].name) = {i}
        /\ \A i \in DataEntries :
              /\ \A j \in ModulesEntries : j < i
              /\ \A j \in EntriesNamed(<<"bin", "/", "modprobe">>) : j < i
              /\ \A j \in EntriesNamed(<<"init">>) : i < j

C10_Witness ==
    /\ pc = "done"
    /\ Len(config.virtme_data) = 2
    /\ Len(config.modfiles.list) >= 1

(***************************************************************************)
(* C11: the access token in the 9p mount options of the generated init     *)
(* script is the configuration's access mode, verbatim; nothing else of    *)
(* the configuration reaches the script.                                   *)
(***************************************************************************)
InitWritten == pc \in {"write_trailer", "done"}

\* the init script as text around the mount option
C11_Script(access) ==
    <<"#!/bin/sh\n\n", LOGFUNC, "\n\nsource /modules/load_all.sh\n",
      "\nlog 'mounting hostfs...'\n\nif ! /bin/mount -n -t 9p -o ",
      access,
      ",version=9p2000.L,trans=virtio,access=any /dev/root /newroot/; then\n",
      "...exec /bin/switch_root /newroot \"$init\" \"$@\"\n">>

C11_AccessVerbatim ==
    InitWritten =>
        \A i \in EntriesNamed(<<"init">>) :
            /\ log[i].body = C11_Script(config.access)
            /\ log[i].body[5] = config.access
            /\ log[i].mode = 493

C11_Witness ==
    /\ pc = "done"
    /\ config.access = "rw"
    /\ EntriesNamed(<<"init">>) # {}

(***************************************************************************)
(* C17: every entry written under a path with a parent component finds     *)
(* that parent already created in the same build, as a directory or as a   *)
(* symlink to a directory; dependencies from /usr/lib and /usr/lib64       *)
(* included.                                                               *)
(***************************************************************************)
\* the path without its last component and the separator before it
RECURSIVE Dirname(_)
Dirname(p) ==
    IF p = <<>> THEN <<>>
    ELSE IF p[Len(p)] = "/" THEN SubSeq(p, 1, Len(p) - 1)
    ELSE Dirname(SubSeq(p, 1, Len(p) - 1))

\* `d/..` names the parent of d
RECURSIVE Resolve(_)
Resolve(p) ==
    IF Len(p) >= 2 /\ p[Len(p)] = ".." /\ p[Len(p) - 1] = "/"
    THEN Dirname(Resolve(SubSeq(p, 1, Len(p) - 2)))
    ELSE p

IsDirBefore(d, i) ==
    \E j \in 1..(i - 1) :
        /\ log[j].name = d
        /\ \/ log[j].op = "mkdir"
           \/ /\ log[j].op = "symlink"
              /\ \E k \in 1..(j - 1) :
                    log[k].op = "mkdir"
                    /\ log[k].name = join(Dirname(d), log[j].target)

C17_ParentsExist ==
    \A i \in DOMAIN log :
        Dirname(log[i].name) # <<>> =>
            IsDirBefore(Resolve(Dirname(log[i].name)), i)

(***************************************************************************)
(* C18: no archive path is written to the sink twice in one build.         *)
(***************************************************************************)
C18_PathsUnique ==
    \A i, j \in DOMAIN log : log[i].name = log[j].name => i = j

(***************************************************************************)
(* C19: the archive that receives `init`, whose script sources             *)
(* /modules/load_all.sh, has received modules/load_all.sh before, for      *)
(* every module list: non-empty, empty or None.                            *)
(***************************************************************************)
C19_LoaderBeforeInit ==
    \A i \in EntriesNamed(<<"init">>) :
        \E j \in 1..(i - 1) :
            /\ log[j].op = "write_file"
            /\ log[j].name = <<"modules", "/", "load_all.sh">>

(***************************************************************************)
(* Properties of the boot script.                                          *)
(***************************************************************************)
\* positions of the trace holding exactly the command c
At(c) == {i \in DOMAIN trace : trace[i] = c}

\* positions of the trace holding a command named n
Ran(n) == {i \in DOMAIN trace : trace[i].cmd = n}

HostfsMountFailed == \E i \in Ran("/bin/mount") : ~trace[i].ok

\* C12: when the 9p mount of the host's root fails, the script reports it,
\* sleeps 5 seconds and exits with status 1, and runs no probe, fallback,
\* copy, command line parsing or root switch.
C12_MountFailureFatal ==
    HostfsMountFailed =>
        LET n == Len(trace)
        IN  /\ sh.pc = "exited"
            /\ sh.status = 1
            /\ n >= 4
            /\ trace[n - 3].cmd = "/bin/mount" /\ ~trace[n - 3].ok
            /\ trace[n - 2].cmd = "echo"
            /\ trace[n - 1] = [cmd |-> "sleep", args |-> << <<"5">> >>,
                               ok |-> TRUE]
            /\ trace[n] = [cmd |-> "exit", args |-> << <<"1">> >>, ok |-> TRUE]
            /\ \A i \in DOMAIN trace :
                  trace[i].cmd \in {"source", "log", "/bin/mount", "echo",
                                    "sleep", "exit"}
            /\ mounts = <<>>

C12_Witness ==
    /\ HostfsMountFailed
    /\ sh.pc = "exited"
    /\ Ran("sleep") # {}

ProbeFailed == \E i \in Ran("mount") :
    trace[i].args[2] = <<"proc">> /\ trace[i].args[6] = InNewroot("proc")
    /\ ~trace[i].ok

\* C13: after a successful 9p mount the fallback is flagged exactly when the
\* probe mount fails or /newroot/run is not a directory.
C13_FlaggedExactlyWhen ==
    sh.pc = "need_fallback" =>
        (sh.need_fallback_tmpfs # ""
            <=> (ProbeFailed \/ [name |-> "run", dir |-> TRUE] \notin tree.newroot))

FallbackDone ==
    At([cmd |-> "umount", args |-> << <<"-l">>, <<"/", "tmproot">> >>,
        ok |-> TRUE]) # {}

\* C14: on the fallback path every top-level directory of /tmproot that is
\* not one of proc, sys, dev, run, tmp gets a mount point in the new root and
\* a bind mount from /tmproot.
C14_EveryDirectoryBound ==
    FallbackDone =>
        \A e \in tree.tmproot :
            (e.dir /\ e.name \notin {"proc", "sys", "dev", "run", "tmp"}) =>
                /\ [name |-> e.name, dir |-> TRUE] \in tree.newroot
                /\ \E k \in DOMAIN mounts :
                      /\ mounts[k].type = "bind"
                      /\ mounts[k].src = <<"/", "tmproot", "/", e.name>>
                      /\ mounts[k].on = <<"/", "newroot", "/", e.name>>

\* an argument of the form init=...
HasInitEq(arg) == Len(arg) >= 2 /\ arg[1] = "init" /\ arg[2] = "="

\* C15: the root switch is executed only when an init= argument was found on
\* the kernel command line.
C15_HandoffOnlyWithInitEq ==
    sh.pc = "switched" => \E i \in DOMAIN sh.cmdline : HasInitEq(sh.cmdline[i])

MountRunCmd(ok) ==
    [cmd |-> "mount",
     args |-> << <<"-t">>, <<"tmpfs">>, <<"run">>, <<"/", "newroot", "/", "run">> >>,
     ok |-> ok]

CopyRunCmd ==
    [cmd |-> "cp",
     args |-> << <<"-a">>, <<"/", "run_virtme">>,
                 <<"/", "newroot", "/", "run", "/", "virtme">> >>,
     ok |-> TRUE]

RemountCmd ==
    [cmd |-> "mount",
     args |-> << <<"-o">>, <<"remount,ro">>, <<"-t">>, <<"tmpfs">>,
                 <<"root_workaround">>, <<"/", "newroot">> >>,
     ok |-> TRUE]

FallbackRan == \E i \in Ran("mount") : trace[i].args[1] = <<"--move">>

\* C16: on every path to the root switch a tmpfs is mounted on /newroot/run,
\* which is a directory at that moment, and then the run area is copied to
\* /newroot/run/virtme, before the command line is read; on the fallback
\* path both come after the remount read-only and the unmount of /tmproot.
C16_RunAreaInstalled ==
    /\ sh.pc = "mount_run" => [name |-> "run", dir |-> TRUE] \in tree.newroot
    /\ MountRunCmd(FALSE) \notin Range(trace)
    /\ sh.pc = "switched" =>
          \E i \in At(MountRunCmd(TRUE)) :
             /\ At(MountRunCmd(TRUE)) = {i}
             /\ At(CopyRunCmd) = {i + 1}
             /\ \A c \in Ran("cat") : i + 1 < c
             /\ \E k \in DOMAIN mounts :
                   /\ mounts[k].type = "tmpfs"
                   /\ mounts[k].on = <<"/", "newroot", "/", "run">>
             /\ FallbackRan =>
                   \E r \in At(RemountCmd) :
                      /\ r + 1 < i
                      /\ trace[r + 1].cmd = "umount"
                      /\ trace[r + 1].args = << <<"-l">>, <<"/", "tmproot">> >>
                      /\ \A k \in DOMAIN mounts :
                            /\ mounts[k].on # <<"/", "tmproot">>
                            /\ mounts[k].on = <<"/", "newroot">> =>
                                  mounts[k].ro

C16_Witness ==
    /\ sh.pc = "switched"
    /\ FallbackRan
    /\ [name |-> "run", dir |-> TRUE] \notin tree.tmproot

\* the text of arg before its first = is exactly init
C20_Selects(arg) == arg # <<>> /\ arg[1] = "init" /\ (Len(arg) = 1 \/ arg[2] = "=")

\* arg without a leading init=
C20_Value(arg) == IF HasInitEq(arg) THEN SubSeq(arg, 3, Len(arg)) ELSE arg

C20_First(cmdline) ==
    CHOOSE i \in DOMAIN cmdline :
        /\ C20_Selects(cmdline[i])
        /\ \A j \in 1..(i - 1) : ~C20_Selects(cmdline[j])

CmdlineScanned ==
    \/ sh.pc \in {"check_init", "switched"}
    \/ sh.pc = "exited" /\ Ran("cat") # {}

\* C20: the first argument whose text before its first = is exactly init
\* fixes the init path and ends the scan; when its value is empty the script
\* exits with status 1 whatever later init= arguments say.
C20_FirstInitWins ==
    CmdlineScanned =>
        LET found == \E i \in DOMAIN sh.cmdline : C20_Selects(sh.cmdline[i])
            value == IF found
                     THEN C20_Value(sh.cmdline[C20_First(sh.cmdline)])
                     ELSE <<>>
        IN  /\ sh.init = value
            /\ sh.pc = "switched" =>
                  /\ value # <<>>
                  /\ trace[Len(trace)].args[2] = value
            /\ sh.pc = "exited" => value = <<>> /\ sh.status = 1

C20_Witness ==
    /\ sh.pc = "exited"
    /\ sh.status = 1
    /\ sh.cmdline = << <<"init", "=">>, <<"init", "=", "/sbin/init">> >>

====
